---- MODULE Spec2Model ----
(***************************************************************************)
(* A model of the slot-based badge rotator: the badge catalog              *)
(* (discoverBadges), the badge handlers of main.go and of the serverless   *)
(* variant, and the slot selector.                                         *)
(*                                                                         *)
(* File names and query strings are sequences of bytes (ASCII codes), so   *)
(* that lower-casing, suffix tests, sorting and number parsing are         *)
(* computed the way the Go code computes them.                             *)
(***************************************************************************)
EXTENDS Integers, Sequences, FiniteSets, TLC

VARIABLES
    entry,              \* which entry point of the repository serves /badge.gif
    fs,                 \* the files present under badgesDir
    now,                \* wall-clock time, in seconds (time.Now().Unix())
    src,                \* the values drawn so far from rand.NewSource(baseSeed) in the
                        \* current window; a source seeded alike yields them again
    badgeFilesList,     \* the catalog (package variable)
    lastDiscoveryTime,  \* time of the last successful scan (package variable)
    mu,                 \* holder of the mutex, or NoProc
    pc,                 \* per goroutine: where it is in its code
    ret,                \* per goroutine: where discoverBadges returns to
    discovered,         \* per goroutine: local `discovered` of discoverBadges
    pending,            \* per goroutine: directory entries WalkDir has still to visit
    snap,               \* per goroutine: the handler's local copy of the catalog
    slotStr,            \* per goroutine: the request's slot query parameter
    sel,                \* per goroutine: the outcome of the slot selection
    resp,               \* per goroutine: the HTTP response written
    rescanned,          \* per goroutine: whether the request called discoverBadges
                        \* ("no", "called") and how the call ended ("failed", "stored")
    seenAtEntry,        \* per goroutine: a refresh was due when the request arrived
                        \* and no scan has stored a fresh, non-empty catalog since
    copiedFrom,         \* per goroutine: the catalog as it was when snap was copied
    lastScan,           \* the result of the last scan that ran to completion
    baseSeed,           \* per goroutine: the handler's local baseSeed
    added               \* the files put into badgesDir, one at a time and between
                        \* scans, since the catalog was last stored

vars == <<entry, fs, now, src, badgeFilesList, lastDiscoveryTime, mu, pc, ret,
          discovered, pending, snap, slotStr, sel, resp, rescanned, seenAtEntry,
          copiedFrom, lastScan, baseSeed, added>>

-----------------------------------------------------------------------------
(* Program constants *)

\* discoveryInterval = 5 * time.Minute, in seconds
discoveryInterval == 300

\* timeWindowSeconds := 2
timeWindowSeconds == 2

\* numBadgeSlots = 3 (second listing of main.go only)
numBadgeSlots == 3

-----------------------------------------------------------------------------
(* Bounds of the model *)

\* the slot numbers the relational properties of the selector are checked for
MaxSlot == 5

\* the clock advances at most MaxTicks times
MaxTicks == 2

\* under concurrent requests the catalog grows stale at most MaxIntervals times
MaxIntervals == 1

\* raw values a random source yields: 0 .. RandRange-1
RandRange == 3

\* the seeds of the last SeedSpan seconds are compared with each other
SeedSpan == 3

-----------------------------------------------------------------------------
(* Strings *)

\* strings.ToLower on one ASCII byte
LowerByte(b) == IF b >= 65 /\ b <= 90 THEN b + 32 ELSE b

\* strings.ToLower
ToLower(s) == [i \in 1..Len(s) |-> LowerByte(s[i])]

\* strings.HasSuffix
HasSuffix(s, suffix) ==
    /\ Len(s) >= Len(suffix)
    /\ SubSeq(s, Len(s) - Len(suffix) + 1, Len(s)) = suffix

\* ".gif" and ".png"
DotGif == <<46, 103, 105, 102>>
DotPng == <<46, 112, 110, 103>>

\* Go's string comparison a < b: byte-wise lexicographic
RECURSIVE StrLess(_, _)
StrLess(a, b) ==
    IF b = <<>> THEN FALSE
    ELSE IF a = <<>> THEN TRUE
    ELSE IF a[1] # b[1] THEN a[1] < b[1]
    ELSE StrLess(Tail(a), Tail(b))

\* insertion of x into the sorted sequence s, after the entries equal to it
RECURSIVE InsertSorted(_, _)
InsertSorted(x, s) ==
    IF s = <<>> THEN <<x>>
    ELSE IF StrLess(x, s[1]) THEN <<x>> \o s
    ELSE <<s[1]>> \o InsertSorted(x, Tail(s))

\* sort.Strings
RECURSIVE SortStrings(_)
SortStrings(s) ==
    IF s = <<>> THEN <<>>
    ELSE InsertSorted(s[Len(s)], SortStrings(SubSeq(s, 1, Len(s) - 1)))

-----------------------------------------------------------------------------
(* The badge directory *)

\* file names used in the model
a_gif == <<97, 46, 103, 105, 102>>
b_PNG == <<98, 46, 80, 78, 71>>
c_txt == <<99, 46, 116, 120, 116>>
d_gif == <<100, 46, 103, 105, 102>>
e_png == <<101, 46, 112, 110, 103>>
f_GIF == <<102, 46, 71, 73, 70>>

\* badgesDir itself, and the one subdirectory it holds (its name ends in .gif)
RootDir == "badges"
SubDir == "badges/d.gif"
SubDirName == d_gif

File(dir, name) == [dir |-> dir, name |-> name]

\* the files that come and go while the server runs
Files == {File(RootDir, b_PNG), File(SubDir, a_gif)}

\* a file that is always there and is no image
FixedFiles == {File(RootDir, c_txt)}

\* the directories the slot selector is exercised on: none to four images
SelDirs ==
    {{},
     {File(RootDir, b_PNG)},
     {File(RootDir, a_gif), File(SubDir, a_gif)},
     {File(RootDir, a_gif), File(RootDir, b_PNG), File(RootDir, e_png)},
     {File(RootDir, a_gif), File(RootDir, b_PNG), File(RootDir, e_png),
      File(RootDir, f_GIF)}}

\* what os.ReadDir yields for a directory: its entries, sorted by file name
DirEntries(dir, files) ==
    {[name |-> f.name, isDir |-> FALSE] : f \in {g \in files : g.dir = dir}}
        \cup (IF dir = RootDir THEN {[name |-> SubDirName, isDir |-> TRUE]} ELSE {})

RECURSIVE SetToSeq(_)
SetToSeq(S) ==
    IF S = {} THEN <<>>
    ELSE LET x == CHOOSE y \in S : TRUE IN <<x>> \o SetToSeq(S \ {x})

ReadDir(dir, files) ==
    LET ents == DirEntries(dir, files)
        names == SortStrings(SetToSeq({e.name : e \in ents}))
    IN [i \in 1..Len(names) |-> CHOOSE e \in ents : e.name = names[i]]

\* the test of the WalkDir callback: a regular file whose lower-cased name ends
\* in .gif or .png
Eligible(d) ==
    /\ ~d.isDir
    /\ \/ HasSuffix(ToLower(d.name), DotGif)
       \/ HasSuffix(ToLower(d.name), DotPng)

\* a variant of WalkFn that assigns the name instead of appending it
WalkFn_KeepsLast(acc, d) == IF Eligible(d) THEN <<d.name>> ELSE acc

\* the WalkDir callback on one entry: discovered = append(discovered, d.Name())
WalkFn(acc, d) == IF Eligible(d) THEN Append(acc, d.name) ELSE acc

\* the callback applied to the entries of a listing, in order
RECURSIVE WalkEntries(_, _)
WalkEntries(acc, listing) ==
    IF listing = <<>> THEN acc
    ELSE WalkEntries(WalkFn(acc, listing[1]), Tail(listing))

\* the entries of a listing before its first directory
RECURSIVE UpToDir(_)
UpToDir(listing) ==
    IF listing = <<>> \/ listing[1].isDir THEN <<>>
    ELSE <<listing[1]>> \o UpToDir(Tail(listing))

\* the entries of a listing from its first directory on
RECURSIVE FromDir(_)
FromDir(listing) ==
    IF listing = <<>> \/ listing[1].isDir THEN listing
    ELSE FromDir(Tail(listing))

\* a variant of StoredCatalog that forgets sort.Strings
StoredCatalog_Unsorted(found) == found

\* what discoverBadges stores after a walk that collected `found`
StoredCatalog(found) == IF Len(found) > 0 THEN SortStrings(found) ELSE <<>>

-----------------------------------------------------------------------------
(* The slot parameter *)

\* query strings used in the model: "", "x", "-1", "0", "1", "2", "4", "5", "+2"
SlotStrs ==
    {<<>>, <<120>>, <<45, 49>>, <<48>>, <<49>>, <<50>>, <<52>>, <<53>>, <<43, 50>>}

\* the slot parameters of the requests made while the directory changes: "", "2"
FewSlotStrs == {<<>>, <<50>>}

IsDigit(b) == b >= 48 /\ b <= 57

\* the digits of s after an optional sign
Unsigned(s) == IF s # <<>> /\ s[1] \in {43, 45} THEN Tail(s) ELSE s

RECURSIVE DigitsValue(_)
DigitsValue(ds) ==
    IF ds = <<>> THEN 0
    ELSE 10 * DigitsValue(SubSeq(ds, 1, Len(ds) - 1)) + (ds[Len(ds)] - 48)

\* strconv.Atoi: err == nil
AtoiOk(s) ==
    /\ Unsigned(s) # <<>>
    /\ \A i \in 1..Len(Unsigned(s)) : IsDigit(Unsigned(s)[i])

\* strconv.Atoi: the value, when err == nil
AtoiVal(s) ==
    IF s[1] = 45 THEN 0 - DigitsValue(Unsigned(s)) ELSE DigitsValue(Unsigned(s))

\* the entry points of the repository that serve /badge.gif
Entries == {"main_go", "main_go_capped", "vercel", "local"}
MainGo == {"main_go", "main_go_capped"}

\* slot, err := strconv.Atoi(slotStr); if err != nil || slot < 1 [|| slot >
\* numBadgeSlots] { slot = 1 }
NormalizeSlot(e, s) ==
    IF ~AtoiOk(s) THEN 1
    ELSE IF AtoiVal(s) < 1 THEN 1
    ELSE IF e = "main_go_capped" /\ AtoiVal(s) > numBadgeSlots THEN 1
    ELSE AtoiVal(s)

-----------------------------------------------------------------------------
(* The slot selector *)

\* a variant of BaseSeed that rounds to the nearest window instead of truncating
BaseSeed_Rounded(t) == (t + 1) \div timeWindowSeconds

\* baseSeed := time.Now().Unix() / int64(timeWindowSeconds); the time is not
\* negative, so Go's truncating division is the floor
BaseSeed(t) == t \div timeWindowSeconds

\* Go's % on ints: the remainder has the sign of the dividend
GoRem(a, b) == IF a >= 0 THEN a % b ELSE 0 - ((0 - a) % b)

\* the k-th bounded draw of a source: a raw value v scaled into 0 .. n-1
Int31n(v, n) == (v * n) \div RandRange

\* swap of positions i and j (counted from 0) of a sequence
Swap(t, i, j) == [t EXCEPT ![i + 1] = t[j + 1], ![j + 1] = t[i + 1]]

\* rand.Shuffle's loop: for i := n - 1; i > 0; i-- { j := Intn(i + 1); swap(i, j) }
RECURSIVE ShuffleFrom(_, _, _)
ShuffleFrom(t, i, stream) ==
    IF i <= 0 THEN t
    ELSE ShuffleFrom(Swap(t, i, Int31n(stream[Len(t) - i], i + 1)), i - 1, stream)

\* tempIndices after the shuffle: tempIndices[i] = i, then Shuffle
Shuffle(n, stream) == ShuffleFrom([i \in 1..n |-> i - 1], n - 1, stream)

NoName == <<>>

\* a goroutine that is not selecting has no baseSeed
NoSeed == 0 - 1

Selection(branch, slot, eff, idx, name) ==
    [branch |-> branch, slot |-> slot, eff |-> eff, idx |-> idx, name |-> name]

NoSel == Selection("none", 0, 0, 0, NoName)

\* a variant of EffectiveSlotIndex that counts the positions from one
EffectiveSlotIndex_OneBased(slot, n) == GoRem(slot - 1, n) + 1

\* a variant of EffectiveSlotIndex that forgets the modulo
EffectiveSlotIndex_NoModulo(slot, n) == slot - 1

\* effectiveSlotIndex := (slot - 1) % len(tempIndices)
EffectiveSlotIndex(slot, n) == GoRem(slot - 1, n)

\* the handler from the copy of the catalog to selectedFilename
SelectBadge(e, list, stream, s) ==
    LET n == Len(list)
        slot == NormalizeSlot(e, s)
        temp == Shuffle(n, stream)
    IN IF n = 0
       THEN IF e = "main_go_capped"
            THEN Selection("panic", slot, 0, 0, NoName)        \* integer divide by zero
            ELSE Selection("emptyAfterCopy", slot, 0, 0, NoName)
       ELSE LET eff == EffectiveSlotIndex(slot, n)
            IN IF eff < n
               THEN IF eff < 0 \/ temp[eff + 1] < 0 \/ temp[eff + 1] >= n
                    THEN Selection("panic", slot, eff, 0, NoName)  \* index out of range
                    ELSE Selection("picked", slot, eff, temp[eff + 1],
                                   list[temp[eff + 1] + 1])
               ELSE IF n > 0
                    THEN Selection("fallback", slot, eff, 0, list[1])
                    ELSE Selection("error500", slot, eff, 0, NoName)

-----------------------------------------------------------------------------
(* Goroutines, time and responses *)

\* goroutine 0 runs main(); the others each serve one request at a time
MainProc == "main"
ReqProcs == {"r1", "r2"}
Procs == {MainProc} \cup ReqProcs
NoProc == "unlocked"

\* the zero time.Time of lastDiscoveryTime, and the time the process starts at
ZeroTime == 0
StartTime == discoveryInterval + 1

\* time.Since(lastDiscoveryTime) > discoveryInterval
Stale == now - lastDiscoveryTime > discoveryInterval

\* a refresh is due: the catalog is empty or older than the interval
Due == Len(badgeFilesList) = 0 \/ Stale

\* shouldDiscover of the serverless Handler
ShouldDiscover == Len(badgeFilesList) = 0 \/ Stale

\* the values a source can yield in k further draws
Draws(k) == [1..k -> 0..(RandRange - 1)]

\* draws a shuffle of n indices makes
DrawsNeeded(n) == IF n > 0 THEN n - 1 ELSE 0

\* the Cache-Control, Pragma and Expires headers the handler sets
NoCache ==
    [cacheControl |-> "no-cache, no-store, must-revalidate, public, max-age=0",
     pragma |-> "no-cache",
     expires |-> "0"]

\* the caching headers of a response on which the handler set none
NotSet == [cacheControl |-> "", pragma |-> "", expires |-> ""]

Response(status, msg, named, ctype, cache, streamed) ==
    [status |-> status, msg |-> msg, named |-> named, ctype |-> ctype,
     cache |-> cache, streamed |-> streamed]

NoResp == Response(0, "", NoName, "", NotSet, NoName)

\* http.Error(w, msg, status)
HttpError(msg, named, status) == Response(status, msg, named, "text/plain", NotSet, NoName)

\* the goroutine's handler panicked; net/http recovers it and drops the connection
Panicked == Response(0, "panic", NoName, "", NotSet, NoName)

\* a variant of ContentType that forgets strings.ToLower
ContentType_CaseSensitive(name) ==
    IF HasSuffix(name, DotPng) THEN "image/png" ELSE "image/gif"

\* Content-Type by the selected file's extension
ContentType(name) ==
    IF HasSuffix(ToLower(name), DotPng) THEN "image/png" ELSE "image/gif"

\* filepath.Join(badgesDir, selectedFilename) names a file that exists
Exists(name, files) == File(RootDir, name) \in files

\* a variant of SelectionList that reads the shared catalog instead of a copy
SelectionList_Shared(p) == badgeFilesList

\* the list the selector works on: the handler's own copy of the catalog
SelectionList(p) == snap[p]

\* a variant of ShuffleSource that draws from a source the goroutines share, so
\* that a request's values depend on what was drawn before it
ShuffleSource_Global(stream, p) ==
    IF p = "r1" THEN stream
    ELSE [i \in 1..Len(stream) |-> (stream[i] + 1) % RandRange]

\* shuffleRand := rand.New(rand.NewSource(baseSeed)): a source of the request's
\* own, whose values are those of its seed
ShuffleSource(stream, p) == stream

\* a variant of CatalogEmpty that never reports an empty catalog
CatalogEmpty_Never == FALSE

\* len(badgeFilesList) == 0
CatalogEmpty == Len(badgeFilesList) = 0

\* whether the handler of this entry point checks the file with os.Stat first
StatsFile(e) == e \in {"vercel", "local"}

\* the first step of a request on each entry point
FirstLabel(e) ==
    IF e \in MainGo THEN "b_lock" ELSE IF e = "vercel" THEN "v_lock" ELSE "h_lock"

-----------------------------------------------------------------------------
(* Initial state: the process has started and main() has not run yet *)

TypeInit(dirs) ==
    /\ entry \in Entries
    /\ fs \in {F \cup FixedFiles : F \in dirs}
    /\ now = StartTime
    /\ src = <<>>
    /\ badgeFilesList = <<>>
    /\ lastDiscoveryTime = ZeroTime
    /\ mu = NoProc
    /\ pc = [p \in Procs |->
               IF p # MainProc THEN "idle"
               ELSE IF entry = "vercel" THEN "m_listen" ELSE "m_start"]
    /\ ret = [p \in Procs |-> "none"]
    /\ discovered = [p \in Procs |-> <<>>]
    /\ pending = [p \in Procs |-> <<>>]
    /\ snap = [p \in Procs |-> <<>>]
    /\ slotStr = [p \in Procs |-> <<>>]
    /\ sel = [p \in Procs |-> NoSel]
    /\ resp = [p \in Procs |-> NoResp]
    /\ rescanned = [p \in Procs |-> "no"]
    /\ seenAtEntry = [p \in Procs |-> FALSE]
    /\ copiedFrom = [p \in Procs |-> <<>>]
    /\ lastScan = <<>>
    /\ baseSeed = [p \in Procs |-> NoSeed]
    /\ added = {}

Init == TypeInit(SUBSET Files)

-----------------------------------------------------------------------------
(* discoverBadges *)

\* a variant of DiscoverReturns without the deferred mu.Unlock()
DiscoverReturns_KeepsLock(p, how) ==
    /\ mu' = mu
    /\ rescanned' = [rescanned EXCEPT ![p] = IF p = MainProc THEN "no" ELSE how]
    /\ pc' = [pc EXCEPT ![p] = ret[p]]
    /\ ret' = [ret EXCEPT ![p] = "none"]
    /\ discovered' = [discovered EXCEPT ![p] = <<>>]
    /\ pending' = [pending EXCEPT ![p] = <<>>]

\* discoverBadges returns: the deferred mu.Unlock() runs, its locals are gone
DiscoverReturns(p, how) ==
    /\ mu' = NoProc
    /\ rescanned' = [rescanned EXCEPT ![p] = IF p = MainProc THEN "no" ELSE how]
    /\ pc' = [pc EXCEPT ![p] = ret[p]]
    /\ ret' = [ret EXCEPT ![p] = "none"]
    /\ discovered' = [discovered EXCEPT ![p] = <<>>]
    /\ pending' = [pending EXCEPT ![p] = <<>>]

\* a variant of WalkFails that stores what the walk had collected so far
WalkFails_StoresPartial(p) ==
    /\ DiscoverReturns(p, "failed")
    /\ badgeFilesList' = StoredCatalog(discovered[p])
    /\ lastDiscoveryTime' = now
    /\ UNCHANGED <<lastScan, seenAtEntry>>

\* the walk returned an error: it is logged and the function returns
WalkFails(p) ==
    /\ DiscoverReturns(p, "failed")
    /\ UNCHANGED <<badgeFilesList, lastDiscoveryTime, lastScan, seenAtEntry>>

\* the refresh that was due when request q arrived is still due once the catalog
\* and its timestamp are list and t
StillDue(q, list, t) ==
    /\ seenAtEntry[q]
    /\ Len(list) = 0 \/ now - t > discoveryInterval

\* mu.Lock()
DLock(p) ==
    /\ pc[p] = "d_lock"
    /\ mu = NoProc
    /\ mu' = p
    /\ pc' = [pc EXCEPT ![p] = "d_root"]
    /\ UNCHANGED <<baseSeed, added>>
    /\ UNCHANGED <<entry, fs, now, src, badgeFilesList, lastDiscoveryTime, ret,
                   discovered, pending, snap, slotStr, sel, resp, rescanned,
                   seenAtEntry, copiedFrom, lastScan>>

\* WalkDir reads badgesDir and calls the callback on its entries up to the
\* first subdirectory, or fails
DRoot(p) ==
    /\ pc[p] = "d_root"
    /\ \/ WalkFails(p)
       \/ LET listing == ReadDir(RootDir, fs)
          IN /\ discovered' = [discovered EXCEPT
                                  ![p] = WalkEntries(<<>>, UpToDir(listing))]
             /\ pending' = [pending EXCEPT ![p] = FromDir(listing)]
             /\ pc' = [pc EXCEPT ![p] = IF FromDir(listing) = <<>>
                                        THEN "d_store" ELSE "d_walk"]
             /\ UNCHANGED <<mu, ret, badgeFilesList, lastDiscoveryTime, lastScan,
                            seenAtEntry, rescanned>>
    /\ UNCHANGED <<baseSeed, added>>
    /\ UNCHANGED <<entry, fs, now, src, snap, slotStr, sel, resp, copiedFrom>>

\* WalkDir reads the subdirectory it has reached, calls the callback on its
\* entries and on the entries that follow it up to the next subdirectory, or fails
DWalk(p) ==
    /\ pc[p] = "d_walk"
    /\ \/ WalkFails(p)
       \/ LET sub == ReadDir(SubDir, fs)
              rest == Tail(pending[p])
          IN /\ discovered' = [discovered EXCEPT
                                  ![p] = WalkEntries(WalkEntries(discovered[p], sub),
                                                     UpToDir(rest))]
             /\ pending' = [pending EXCEPT ![p] = FromDir(rest)]
             /\ pc' = [pc EXCEPT ![p] = IF FromDir(rest) = <<>>
                                        THEN "d_store" ELSE "d_walk"]
             /\ UNCHANGED <<mu, ret, badgeFilesList, lastDiscoveryTime, lastScan,
                            seenAtEntry, rescanned>>
    /\ UNCHANGED <<baseSeed, added>>
    /\ UNCHANGED <<entry, fs, now, src, snap, slotStr, sel, resp, copiedFrom>>

\* the walk succeeded: the catalog is replaced, the timestamp set, the mutex released
DStore(p) ==
    /\ pc[p] = "d_store"
    /\ badgeFilesList' = StoredCatalog(discovered[p])
    /\ lastDiscoveryTime' = now
    /\ lastScan' = StoredCatalog(discovered[p])
    /\ added' = {}
    /\ seenAtEntry' = [q \in Procs |-> StillDue(q, StoredCatalog(discovered[p]), now)]
    /\ DiscoverReturns(p, "stored")
    /\ UNCHANGED baseSeed
    /\ UNCHANGED <<entry, fs, now, src, snap, slotStr, sel, resp, copiedFrom>>

\* main(): discoverBadges(), then the server listens
MStart(p) ==
    /\ p = MainProc
    /\ pc[p] = "m_start"
    /\ pc' = [pc EXCEPT ![p] = "d_lock"]
    /\ ret' = [ret EXCEPT ![p] = "m_listen"]
    /\ UNCHANGED <<baseSeed, added>>
    /\ UNCHANGED <<entry, fs, now, src, badgeFilesList, lastDiscoveryTime, mu,
                   discovered, pending, snap, slotStr, sel, resp, rescanned,
                   seenAtEntry, copiedFrom, lastScan>>

-----------------------------------------------------------------------------
(* The badge handlers *)

\* a request for /badge.gif reaches the server
Arrive(p) ==
    /\ p \in ReqProcs
    /\ pc[p] = "idle"
    /\ pc[MainProc] = "m_listen"
    /\ pc' = [pc EXCEPT ![p] = FirstLabel(entry)]
    /\ seenAtEntry' = [seenAtEntry EXCEPT ![p] = Due]
    /\ UNCHANGED <<baseSeed, added>>
    /\ UNCHANGED <<entry, fs, now, src, badgeFilesList, lastDiscoveryTime, mu, ret,
                   discovered, pending, snap, slotStr, sel, resp, rescanned,
                   copiedFrom, lastScan>>

\* the goroutine calls discoverBadges and comes back at label `back`
CallDiscover(p, back) ==
    /\ pc' = [pc EXCEPT ![p] = "d_lock"]
    /\ ret' = [ret EXCEPT ![p] = back]
    /\ rescanned' = [rescanned EXCEPT ![p] = "called"]

\* mu.Lock() at label `at`; the handler goes on at label `to`
Lock(p, at, to) ==
    /\ pc[p] = at
    /\ mu = NoProc
    /\ mu' = p
    /\ pc' = [pc EXCEPT ![p] = to]
    /\ UNCHANGED <<baseSeed, added>>
    /\ UNCHANGED <<entry, fs, now, src, badgeFilesList, lastDiscoveryTime, ret,
                   discovered, pending, snap, slotStr, sel, resp, rescanned,
                   seenAtEntry, copiedFrom, lastScan>>

\* main.go badgeHandler: mu.Lock()
BLock(p) == Lock(p, "b_lock", "b_stale")

\* main.go badgeHandler: if time.Since(lastDiscoveryTime) > discoveryInterval
\* { mu.Unlock(); discoverBadges(); mu.Lock() }
BStale(p) ==
    /\ pc[p] = "b_stale"
    /\ IF Stale
       THEN /\ mu' = NoProc
            /\ CallDiscover(p, "h_lock")
       ELSE /\ pc' = [pc EXCEPT ![p] = "h_copy"]
            /\ UNCHANGED <<mu, ret, rescanned>>
    /\ UNCHANGED <<baseSeed, added>>
    /\ UNCHANGED <<entry, fs, now, src, badgeFilesList, lastDiscoveryTime,
                   discovered, pending, snap, slotStr, sel, resp, seenAtEntry,
                   copiedFrom, lastScan>>

\* Handler of the serverless variant: mu.Lock()
VLock(p) == Lock(p, "v_lock", "v_check")

\* Handler of the serverless variant: shouldDiscover := len(badgeFilesList) == 0 ||
\* time.Since(lastDiscoveryTime) > discoveryInterval; mu.Unlock();
\* if shouldDiscover { discoverBadges() }; mux.ServeHTTP(w, r)
VCheck(p) ==
    /\ pc[p] = "v_check"
    /\ mu' = NoProc
    /\ IF ShouldDiscover
       THEN CallDiscover(p, "h_lock")
       ELSE /\ pc' = [pc EXCEPT ![p] = "h_lock"]
            /\ UNCHANGED <<ret, rescanned>>
    /\ UNCHANGED <<baseSeed, added>>
    /\ UNCHANGED <<entry, fs, now, src, badgeFilesList, lastDiscoveryTime,
                   discovered, pending, snap, slotStr, sel, resp, seenAtEntry,
                   copiedFrom, lastScan>>

\* badgeHandlerInternal, and badgeHandler after a rescan: mu.Lock()
HLock(p) == Lock(p, "h_lock", "h_copy")

\* the request is answered and the handler returns: its locals are gone
Respond(p, r) ==
    /\ resp' = [resp EXCEPT ![p] = r]
    /\ pc' = [pc EXCEPT ![p] = "done"]
    /\ snap' = [snap EXCEPT ![p] = <<>>]
    /\ copiedFrom' = [copiedFrom EXCEPT ![p] = <<>>]
    /\ slotStr' = [slotStr EXCEPT ![p] = <<>>]
    /\ sel' = [sel EXCEPT ![p] = NoSel]
    /\ baseSeed' = [baseSeed EXCEPT ![p] = NoSeed]

\* if len(badgeFilesList) == 0 { mu.Unlock(); 404 }; otherwise the catalog is
\* copied and the mutex released
HCopy(p) ==
    /\ pc[p] = "h_copy"
    /\ mu' = NoProc
    /\ rescanned' = [rescanned EXCEPT ![p] = "no"]
    /\ seenAtEntry' = [seenAtEntry EXCEPT ![p] = FALSE]
    /\ IF CatalogEmpty
       THEN Respond(p, HttpError("No badges available", NoName, 404))
       ELSE /\ snap' = [snap EXCEPT ![p] = badgeFilesList]
            /\ copiedFrom' = [copiedFrom EXCEPT ![p] = badgeFilesList]
            /\ pc' = [pc EXCEPT ![p] = "h_select"]
            /\ UNCHANGED <<resp, slotStr, sel, baseSeed>>
    /\ UNCHANGED added
    /\ UNCHANGED <<entry, fs, now, src, badgeFilesList, lastDiscoveryTime, ret,
                   discovered, pending, lastScan>>

\* the seed is taken, the slot parameter s of the request parsed, the indices
\* shuffled, the file name selected
HSelect(p, s) ==
    /\ pc[p] = "h_select"
    /\ \E more \in Draws(DrawsNeeded(Len(SelectionList(p))) - Len(src)) :
           src' = src \o more
    /\ LET got == SelectBadge(entry, SelectionList(p), ShuffleSource(src', p), s)
       IN CASE got.branch \in {"picked", "fallback"} ->
                    /\ slotStr' = [slotStr EXCEPT ![p] = s]
                    /\ sel' = [sel EXCEPT ![p] = got]
                    /\ pc' = [pc EXCEPT ![p] = IF StatsFile(entry)
                                               THEN "h_stat" ELSE "h_serve"]
                    /\ baseSeed' = [baseSeed EXCEPT ![p] = BaseSeed(now)]
                    /\ UNCHANGED <<resp, snap, copiedFrom>>
               [] got.branch = "emptyAfterCopy" ->
                    Respond(p, HttpError("No badges available after copy", NoName, 404))
               [] got.branch = "error500" ->
                    Respond(p, HttpError("Error selecting badge", NoName, 500))
               [] OTHER -> Respond(p, Panicked)
    /\ UNCHANGED added
    /\ UNCHANGED <<entry, fs, now, badgeFilesList, lastDiscoveryTime, mu, ret,
                   discovered, pending, rescanned, seenAtEntry, lastScan>>

\* serverless variant: if _, statErr := os.Stat(filePath); os.IsNotExist(statErr)
\* { 404 "Badge file '%s' not found on server." }
HStat(p) ==
    /\ pc[p] = "h_stat"
    /\ IF Exists(sel[p].name, fs)
       THEN /\ pc' = [pc EXCEPT ![p] = "h_serve"]
            /\ UNCHANGED <<resp, snap, copiedFrom, slotStr, sel, baseSeed>>
       ELSE Respond(p, HttpError("Badge file not found on server", sel[p].name, 404))
    /\ UNCHANGED added
    /\ UNCHANGED <<entry, fs, now, src, badgeFilesList, lastDiscoveryTime, mu, ret,
                   discovered, pending, rescanned, seenAtEntry, lastScan>>

\* http.ServeFile after the headers are set: the file's bytes, or the file
\* server's own 404 when the path names no file
ServeFile(name, files) ==
    IF Exists(name, files)
    THEN Response(200, "", NoName, ContentType(name), NoCache, name)
    ELSE Response(404, "404 page not found", NoName, "text/plain", NoCache, NoName)

\* the cache and content-type headers are set and the file is served
HServe(p) ==
    /\ pc[p] = "h_serve"
    /\ Respond(p, ServeFile(sel[p].name, fs))
    /\ UNCHANGED added
    /\ UNCHANGED <<entry, fs, now, src, badgeFilesList, lastDiscoveryTime, mu, ret,
                   discovered, pending, rescanned, seenAtEntry, lastScan>>

\* the handler has returned; its goroutine is free for the next request
Finish(p) ==
    /\ pc[p] = "done"
    /\ pc' = [pc EXCEPT ![p] = "idle"]
    /\ resp' = [resp EXCEPT ![p] = NoResp]
    /\ UNCHANGED <<baseSeed, added>>
    /\ UNCHANGED <<entry, fs, now, src, badgeFilesList, lastDiscoveryTime, mu, ret,
                   discovered, pending, snap, slotStr, sel, rescanned, seenAtEntry,
                   copiedFrom, lastScan>>

-----------------------------------------------------------------------------
(* The environment: the directory changes and time passes *)

Create(f) ==
    /\ f \notin fs
    /\ fs' = fs \cup {f}
    /\ UNCHANGED <<baseSeed, added>>
    /\ UNCHANGED <<entry, now, src, badgeFilesList, lastDiscoveryTime, mu, pc, ret,
                   discovered, pending, snap, slotStr, sel, resp, rescanned,
                   seenAtEntry, copiedFrom, lastScan>>

Remove(f) ==
    /\ f \in fs
    /\ fs' = fs \ {f}
    /\ UNCHANGED <<baseSeed, added>>
    /\ UNCHANGED <<entry, now, src, badgeFilesList, lastDiscoveryTime, mu, pc, ret,
                   discovered, pending, snap, slotStr, sel, resp, rescanned,
                   seenAtEntry, copiedFrom, lastScan>>

\* the files that are added, one at a time, while the server runs
GrowFiles ==
    {File(RootDir, a_gif), File(RootDir, e_png), File(SubDir, a_gif),
     File(SubDir, c_txt)}

\* a file is added to badgesDir while no scan is reading the directory
Grow(f) ==
    /\ f \notin fs
    /\ pc[MainProc] = "m_listen"
    /\ \A p \in Procs : pc[p] \notin {"d_root", "d_walk", "d_store"}
    /\ fs' = fs \cup {f}
    /\ added' = added \cup {f}
    /\ UNCHANGED <<entry, now, src, badgeFilesList, lastDiscoveryTime, mu, pc, ret,
                   discovered, pending, snap, slotStr, sel, resp, rescanned,
                   seenAtEntry, copiedFrom, lastScan, baseSeed>>

\* the advances of the clock, by one second or by discoveryInterval, that lead to time t
TicksUsed(t) ==
    ((t - StartTime) % discoveryInterval) + ((t - StartTime) \div discoveryInterval)

\* the clock advances by d seconds; a source seeded in a new window yields
\* values of its own
Tick(d) ==
    /\ TicksUsed(now + d) <= MaxTicks
    /\ now' = now + d
    /\ src' = IF BaseSeed(now + d) = BaseSeed(now) THEN src ELSE <<>>
    /\ UNCHANGED <<baseSeed, added>>
    /\ UNCHANGED <<entry, fs, badgeFilesList, lastDiscoveryTime, mu, pc, ret,
                   discovered, pending, snap, slotStr, sel, resp, rescanned,
                   seenAtEntry, copiedFrom, lastScan>>

\* discoveryInterval passes
Expire ==
    /\ now + discoveryInterval <= StartTime + MaxIntervals * discoveryInterval
    /\ Tick(discoveryInterval)

-----------------------------------------------------------------------------
(* The server under concurrent requests and a changing directory *)

Discover(p) == DLock(p) \/ DRoot(p) \/ DWalk(p) \/ DStore(p)

Handle(p) ==
    \/ BLock(p) \/ BStale(p) \/ VLock(p) \/ VCheck(p)
    \/ HLock(p) \/ HCopy(p) \/ HStat(p) \/ HServe(p) \/ Finish(p)

Next ==
    \/ \E p \in Procs : MStart(p) \/ Discover(p) \/ Handle(p)
    \/ \E p \in ReqProcs : Arrive(p)
    \/ \E p \in ReqProcs, s \in FewSlotStrs : HSelect(p, s)
    \/ \E f \in Files : Create(f) \/ Remove(f)
    \/ Expire

Spec == Init /\ [][Next]_vars

(* One request at a time against a directory that does not change *)

SeqInit == TypeInit(SelDirs)

SeqNext ==
    \/ \E p \in {MainProc, "r1"} : MStart(p) \/ Discover(p) \/ Handle(p)
    \/ Arrive("r1")
    \/ \E s \in SlotStrs : HSelect("r1", s)
    \/ \E d \in {1, discoveryInterval} : Tick(d)

SeqSpec == SeqInit /\ [][SeqNext]_vars

(* One request at a time against a directory that only grows *)

GrowInit == TypeInit({{}, {File(RootDir, b_PNG)}})

GrowNext ==
    \/ \E p \in {MainProc, "r1"} : MStart(p) \/ Discover(p) \/ Handle(p)
    \/ Arrive("r1")
    \/ \E s \in FewSlotStrs : HSelect("r1", s)
    \/ \E f \in GrowFiles : Grow(f)
    \/ Tick(discoveryInterval)

GrowSpec == GrowInit /\ [][GrowNext]_vars

(* Concurrent requests under a fair scheduler and a fair mutex *)

LiveInit == TypeInit({Files})

\* goroutine p acquires the mutex
Acquire(p) == DLock(p) \/ BLock(p) \/ VLock(p) \/ HLock(p)

\* goroutine p takes a step that does not wait for the mutex
Run(p) ==
    \/ MStart(p) \/ DRoot(p) \/ DWalk(p) \/ DStore(p)
    \/ BStale(p) \/ VCheck(p) \/ HCopy(p) \/ HStat(p) \/ HServe(p)
    \/ \E s \in FewSlotStrs : HSelect(p, s)

LiveNext ==
    \/ \E p \in Procs : Acquire(p) \/ Run(p) \/ Finish(p)
    \/ \E p \in ReqProcs : Arrive(p)
    \/ Expire

\* the scheduler runs every goroutine that can run, and a goroutine waiting in
\* mu.Lock() gets the mutex when it is free again and again (sync.Mutex hands
\* it to a starved waiter)
LiveSpec ==
    /\ LiveInit
    /\ [][LiveNext]_vars
    /\ \A p \in Procs : WF_vars(Run(p)) /\ SF_vars(Acquire(p))

-----------------------------------------------------------------------------
(* Properties of the slot selector *)

\* handlers that have selected a file name and not yet answered
Selected(p) == pc[p] \in {"h_stat", "h_serve"}

\* the values drawn in the current window suffice to shuffle p's copy again
SameWindow(p) == Len(src) >= DrawsNeeded(Len(snap[p]))

\* the decimal digits of k, as strconv.Itoa writes them (k >= 0)
RECURSIVE SlotParam(_)
SlotParam(k) ==
    IF k < 10 THEN <<48 + k>> ELSE SlotParam(k \div 10) \o <<48 + (k % 10)>>

\* what a request with slot=k would select from p's copy in the current window
NameForSlot(p, k) == SelectBadge(entry, snap[p], src, SlotParam(k)).name

\* no name occurs twice in the list
NoRepeats(list) == \A i, j \in 1..Len(list) : list[i] = list[j] => i = j

\* C1: whatever the slot parameter, a handler that copied a non-empty catalog of
\* size N selects one file name through the regular branch: the position in the
\* shuffled indices and the position in the copy are both in 0..N-1, the name is
\* the copy's entry at that position, and no handler ends in a run-time panic.
C1_SelectionInBounds ==
    \A p \in ReqProcs :
        /\ Selected(p) =>
              /\ sel[p].branch = "picked"
              /\ sel[p].eff \in 0..(Len(snap[p]) - 1)
              /\ sel[p].idx \in 0..(Len(snap[p]) - 1)
              /\ sel[p].name = snap[p][sel[p].idx + 1]
              /\ sel[p].name # NoName
        /\ resp[p] # Panicked

\* C1 witness: a catalog of four, slot=5, and the last catalog entry selected
C1_Witness ==
    \E p \in ReqProcs :
        /\ Selected(p)
        /\ Len(snap[p]) = 4
        /\ slotStr[p] = <<53>>
        /\ sel[p].eff = 0
        /\ sel[p].idx = 3

\* C2: in one window and against one copy of the catalog of size N, the requests
\* with slot = 1..N select N pairwise distinct file names (stated for catalogs
\* that hold no name twice).
C2_SlotsSelectDistinctNames ==
    \A p \in ReqProcs :
        (Selected(p) /\ SameWindow(p) /\ NoRepeats(snap[p])) =>
            \A a, b \in 1..Len(snap[p]) :
                a # b => NameForSlot(p, a) # NameForSlot(p, b)

\* C3: the slot is taken modulo the catalog size: in one window and against one
\* copy of size N, slot s and slot s + N select the same file name, for s >= 1.
C3_SlotModuloCatalogSize ==
    \A p \in ReqProcs :
        (Selected(p) /\ SameWindow(p)) =>
            \A s \in 1..MaxSlot :
                NameForSlot(p, s) = NameForSlot(p, s + Len(snap[p]))

\* C4: the slot used for the selection is the slot parameter when that is an
\* integer >= 1, and 1 when it is absent, not a number or less than 1.
C4_SlotDefaultsToOne ==
    \A p \in ReqProcs :
        Selected(p) =>
            sel[p].slot = IF AtoiOk(slotStr[p]) /\ AtoiVal(slotStr[p]) >= 1
                          THEN AtoiVal(slotStr[p])
                          ELSE 1

-----------------------------------------------------------------------------
(* Properties of the catalog and of the handlers under concurrency *)

\* labels at which a goroutine reads or writes badgeFilesList or lastDiscoveryTime
AccessLabels == {"b_stale", "v_check", "h_copy", "d_store"}

\* labels inside discoverBadges after mu.Lock()
ScanLabels == {"d_root", "d_walk", "d_store"}

\* p's call of discoverBadges ends in this step with a walk error
ScanFailsNow(p) ==
    /\ pc[p] \in {"d_root", "d_walk"}
    /\ pc'[p] \notin ScanLabels

\* C5: a request that arrives while a refresh is due (catalog empty, or older
\* than discoveryInterval) has called discoverBadges by the time its handler
\* checks the catalog, on every entry point.
C5_RefreshWhenDue ==
    \A p \in ReqProcs :
        (pc[p] = "h_copy" /\ seenAtEntry[p]) => rescanned[p] # "no"

\* C6: a scan that fails leaves badgeFilesList and lastDiscoveryTime as they
\* were, releases the mutex and returns to its caller, which goes on.
C6_FailedScanKeepsCatalog ==
    [][\A p \in Procs :
          ScanFailsNow(p) =>
              /\ badgeFilesList' = badgeFilesList
              /\ lastDiscoveryTime' = lastDiscoveryTime
              /\ mu' = NoProc
              /\ pc'[p] = ret[p]
              /\ pc'[p] \in {"m_listen", "h_lock"}]_vars

\* C6 witness: a request's rescan failed and it is about to be served from the
\* catalog of an earlier scan
C6_Witness ==
    \E p \in ReqProcs :
        /\ pc[p] = "h_copy"
        /\ rescanned[p] = "failed"
        /\ Len(badgeFilesList) > 0
        /\ lastDiscoveryTime = StartTime
        /\ now > StartTime

\* C7: the shared catalog and timestamp are touched only by the holder of the
\* mutex; the catalog is always the result of the last scan that ran to
\* completion (or the initial empty one); and the list a handler selects from
\* is the catalog as it was when the handler copied it, whatever refresh ran
\* since.
C7_CompleteSnapshotsUnderLock ==
    /\ \A p \in Procs : pc[p] \in AccessLabels \cup ScanLabels => mu = p
    /\ badgeFilesList = lastScan
    /\ \A p \in ReqProcs :
          pc[p] = "h_select" =>
              /\ SelectionList(p) = copiedFrom[p]
              /\ Len(SelectionList(p)) > 0

\* C7 witness: a handler holds a copy while another goroutine, holding the
\* mutex, has a half-built list, and the catalog has since been replaced
C7_Witness ==
    \E p, q \in ReqProcs :
        /\ pc[p] = "h_select"
        /\ snap[p] # badgeFilesList
        /\ pc[q] = "d_walk"
        /\ discovered[q] # <<>>
        /\ mu = q

\* p takes its step at label l
StepsAt(p, l) == pc[p] = l /\ pc'[p] # l

\* C8: a scan that finds no eligible file makes the catalog empty, and a handler
\* that finds the catalog empty answers 404 "No badges available" without
\* selecting; no handler panics (the server does not divide by a zero length).
C8_EmptyCatalogGives404 ==
    [][/\ \A p \in Procs :
             (StepsAt(p, "d_store") /\ discovered[p] = <<>>) =>
                 badgeFilesList' = <<>>
       /\ \A p \in ReqProcs :
             (StepsAt(p, "h_copy") /\ Len(badgeFilesList) = 0) =>
                 /\ resp'[p] = HttpError("No badges available", NoName, 404)
                 /\ pc'[p] = "done"
                 /\ sel'[p] = NoSel
       /\ \A p \in ReqProcs : resp'[p] # Panicked]_vars

\* C8 witness: a scan succeeded and found nothing, and a request got the 404
C8_Witness ==
    \E p \in ReqProcs :
        /\ resp[p] = HttpError("No badges available", NoName, 404)
        /\ lastDiscoveryTime # ZeroTime
        /\ badgeFilesList = <<>>
        /\ lastScan = <<>>

\* the selected name is that of a file scanned in badgesDir itself
ScannedInRoot(name) ==
    /\ \E f \in Files : f.dir = RootDir /\ f.name = name
    /\ ~\E f \in Files : f.dir # RootDir /\ f.name = name

\* C9: when the selected file, scanned in badgesDir, is gone when the handler
\* answers, the answer is a 404 that names the file, and nothing is streamed.
C9_MissingFileNamedIn404 ==
    [][\A p \in ReqProcs :
          (/\ Selected(p)
           /\ pc'[p] = "done"
           /\ ScannedInRoot(sel[p].name)
           /\ ~Exists(sel[p].name, fs)) =>
              /\ resp'[p].status = 404
              /\ resp'[p].named = sel[p].name
              /\ resp'[p].streamed = NoName]_vars

\* sort.Strings order: no entry is less than an earlier one
Sorted(list) == \A i, j \in 1..Len(list) : i < j => ~StrLess(list[j], list[i])

\* the lower-cased name ends in .gif or .png
ImageName(name) ==
    \/ HasSuffix(ToLower(name), DotGif)
    \/ HasSuffix(ToLower(name), DotPng)

\* C10: in every reachable state the catalog is sorted and holds only names
\* whose lower-cased form ends in .gif or .png.
C10_CatalogSortedImages ==
    /\ Sorted(badgeFilesList)
    /\ \A i \in 1..Len(badgeFilesList) : ImageName(badgeFilesList[i])

\* C10 witness: after a failed refresh the catalog still holds, in order, two
\* names the walk met in the other order
C10_Witness ==
    /\ badgeFilesList = <<a_gif, b_PNG>>
    /\ \E p \in ReqProcs : rescanned[p] = "failed"

-----------------------------------------------------------------------------
(* Properties of a refresh after the directory has grown *)

\* how often a name occurs in a list
Count(name, list) == Cardinality({i \in 1..Len(list) : list[i] = name})

\* exactly one file has been added since the catalog was stored, and the
\* callback of the walk accepts it
OneEligibleAdded ==
    \E f \in added :
        /\ added = {f}
        /\ Eligible([name |-> f.name, isDir |-> FALSE])

\* C11: when one eligible file has been added since the catalog was stored by a
\* scan, the next scan that succeeds stores a catalog with exactly one more
\* entry, in which every entry of the old catalog is still present (as often
\* as before), and which is sorted.
C11_GrowthAddsOneEntry ==
    [][\A p \in Procs :
          (/\ StepsAt(p, "d_store")
           /\ lastDiscoveryTime # ZeroTime
           /\ OneEligibleAdded) =>
              /\ Len(badgeFilesList') = Len(badgeFilesList) + 1
              /\ \A i \in 1..Len(badgeFilesList) :
                     Count(badgeFilesList[i], badgeFilesList') >=
                         Count(badgeFilesList[i], badgeFilesList)
              /\ Sorted(badgeFilesList')]_vars

\* C11 witness: main.go started on a directory holding b.PNG, a.gif was added
\* while it ran, and a refresh has stored both
C11_Witness ==
    /\ entry \in MainGo
    /\ fs = {File(RootDir, a_gif), File(RootDir, b_PNG)} \cup FixedFiles
    /\ badgeFilesList = <<a_gif, b_PNG>>
    /\ lastDiscoveryTime > StartTime
    /\ added = {}

-----------------------------------------------------------------------------
(* Properties of the seed *)

\* C12: two requests that hold the same baseSeed, equal copies of the catalog
\* and the same slot have selected the same file name, whatever was served
\* before them and in whatever order they ran.
C12_SelectionDeterministic ==
    \A p, q \in ReqProcs :
        (/\ Selected(p) /\ Selected(q)
         /\ baseSeed[p] = baseSeed[q]
         /\ snap[p] = snap[q]
         /\ sel[p].slot = sel[q].slot) =>
            sel[p].name = sel[q].name

\* C12 witness: two concurrent requests in one window, each with slot=2 and a
\* copy of the same two-entry catalog
C12_Witness ==
    /\ Selected("r1") /\ Selected("r2")
    /\ baseSeed["r1"] = baseSeed["r2"]
    /\ snap["r1"] = <<a_gif, b_PNG>>
    /\ snap["r2"] = <<a_gif, b_PNG>>
    /\ sel["r1"].slot = 2
    /\ sel["r2"].slot = 2

\* a window begins at second m
WindowStart(m) == m % timeWindowSeconds = 0

\* C13: the seed is the number of the 2-second window the time lies in: two
\* times have the same seed exactly when no window begins after the earlier and
\* up to the later one; and the seed s a handler holds was taken at or before
\* now, and is the seed of now exactly while now is before second 2 * (s + 1).
C13_SeedIsWindowNumber ==
    /\ \A t, u \in (now - SeedSpan)..now :
           t <= u =>
               ((BaseSeed(t) = BaseSeed(u)) <=>
                    (\A m \in (t + 1)..u : ~WindowStart(m)))
    /\ \A p \in ReqProcs :
           Selected(p) =>
               /\ timeWindowSeconds * baseSeed[p] <= now
               /\ (baseSeed[p] = BaseSeed(now)) <=>
                      (now < timeWindowSeconds * (baseSeed[p] + 1))

\* C13 witness: a handler took its seed in the first second, and one or two
\* seconds later the seed of now is another
C13_Witness ==
    \E p \in ReqProcs :
        /\ Selected(p)
        /\ baseSeed[p] = BaseSeed(StartTime)
        /\ now <= StartTime + 2
        /\ BaseSeed(now) # baseSeed[p]

-----------------------------------------------------------------------------
(* Properties of the responses *)

DefensiveMessages ==
    {"No badges available after copy", "Error selecting badge"}

\* C15: no request is answered through a defensive branch of the handler:
\* neither "No badges available after copy", nor the 500 "Error selecting
\* badge", nor the fallback that serves the first entry of the catalog.
C15_DefensiveBranchesUnreachable ==
    \A p \in ReqProcs :
        /\ sel[p].branch \in {"none", "picked"}
        /\ resp[p].msg \notin DefensiveMessages
        /\ resp[p].status # 500

\* C15 witness: slot=2 against a catalog of one entry went through the regular
\* branch and the file is about to be served
C15_Witness ==
    \E p \in ReqProcs :
        /\ pc[p] = "h_serve"
        /\ slotStr[p] = <<50>>
        /\ Len(snap[p]) = 1
        /\ sel[p].branch = "picked"
        /\ sel[p].name = snap[p][1]

-----------------------------------------------------------------------------
(* Properties of the locking *)

\* labels at which a goroutine calls mu.Lock()
LockLabels == {"d_lock", "b_lock", "v_lock", "h_lock"}

\* the holder of the mutex is between a mu.Lock() and the mu.Unlock() that
\* follows it: it has not returned and is not calling mu.Lock() again
LockDiscipline ==
    \A p \in Procs :
        /\ mu = p => pc[p] \in AccessLabels \cup ScanLabels
        /\ pc[p] \in LockLabels \cup {"idle", "done", "m_listen"} => mu # p

\* C16: the mutex is held only inside the critical sections (released before
\* every return, never locked again by its holder), and every request that has
\* arrived is eventually answered.
C16_LocksReleasedRequestsAnswered ==
    /\ []LockDiscipline
    /\ \A p \in ReqProcs : (pc[p] # "idle") ~> (pc[p] = "done")

\* C16 witness: a request waits in mu.Lock() while another request holds the
\* mutex inside discoverBadges
C16_Witness ==
    \E p, q \in ReqProcs :
        /\ p # q
        /\ pc[p] \in LockLabels
        /\ mu = q
        /\ pc[q] \in ScanLabels

-----------------------------------------------------------------------------
(* Properties of the catalog's entries and of the refreshes *)

\* C17: once a scan has stored the catalog of a directory from which nothing is
\* removed, every entry joined with badgesDir names a file that exists, and no
\* name occurs twice.
C17_EntriesAreFilesOfBadgesDir ==
    lastDiscoveryTime # ZeroTime =>
        /\ \A i \in 1..Len(badgeFilesList) : Exists(badgeFilesList[i], fs)
        /\ NoRepeats(badgeFilesList)

\* C18: a request scans the directory only while a refresh is due: once the
\* scan of one request has stored a fresh, non-empty catalog, no other request
\* that found the same catalog stale scans again.
C18_OneScanPerEpisode ==
    \A p \in ReqProcs : pc[p] \in ScanLabels => Due

====
